---- MODULE Spec2Model ----
(***************************************************************************)
(* Model of the vmess-subscription to Clash-configuration converter        *)
(* (src/src/pkg/main.go).  One GET /config request is a sequential run of  *)
(* processConfig -> processConvert -> convertVmessToClashProxy /           *)
(* createDefaultClashConfig; the model keeps the position of that run, the *)
(* request-local values the code builds, and the calls the handler makes   *)
(* on the gin context.                                                     *)
(***************************************************************************)
EXTENDS Integers, Sequences, FiniteSets, TLC

VARIABLES
    pc,            \* position of the request inside processConfig/processConvert
    tmplFile,      \* resources/out-template.yaml as found on disk
    nodeLinks,     \* strings.Split(decodedBody, "\n")
    clashProxies,  \* var clashProxies []ClashProxy
    proxyNames,    \* var proxyNames []string
    clashConfig,   \* value returned by createDefaultClashConfig (0 or 1 element)
    result,        \* (data, err) returned by processConvert
    calls,         \* calls processConfig has made on the gin context
    stages         \* stages of processConvert that have run, in order

vars == <<pc, tmplFile, nodeLinks, clashProxies, proxyNames, clashConfig,
          result, calls, stages>>

\* Longest subscription (number of lines of the decoded body) explored.
MaxLinks == 2

----------------------------------------------------------------------------
(* Text of a port field: a sequence of one-character strings.              *)

Digits == {"0", "1", "2", "3", "4", "5", "6", "7", "8", "9"}

DigitVal(c) ==
    CASE c = "0" -> 0 [] c = "1" -> 1 [] c = "2" -> 2 [] c = "3" -> 3
      [] c = "4" -> 4 [] c = "5" -> 5 [] c = "6" -> 6 [] c = "7" -> 7
      [] c = "8" -> 8 [] c = "9" -> 9

RECURSIVE DecimalValue(_)
DecimalValue(s) ==
    IF Len(s) = 0 THEN 0
    ELSE 10 * DecimalValue(SubSeq(s, 1, Len(s) - 1)) + DigitVal(s[Len(s)])

\* strconv.Atoi: an optional sign, then one or more decimal digits; anything
\* else (empty text, letters, blanks) is a syntax error and the value is 0.
\* The port texts explored are far below the int range, so no range error.
AtoiLenient(s) ==
    LET body == SelectSeq(s, LAMBDA c : c \in Digits)
    IN  [ok |-> TRUE, val |-> DecimalValue(body)]

Atoi(s) ==
    LET signed == Len(s) > 0 /\ s[1] \in {"+", "-"}
        neg    == Len(s) > 0 /\ s[1] = "-"
        body   == IF signed THEN Tail(s) ELSE s
    IN  IF Len(body) = 0 \/ \E i \in 1..Len(body) : body[i] \notin Digits
        THEN [ok |-> FALSE, val |-> 0]
        ELSE [ok |-> TRUE,
              val |-> IF neg THEN 0 - DecimalValue(body) ELSE DecimalValue(body)]

----------------------------------------------------------------------------
(* ClashProxy and the mapper.                                              *)

\* A Go map[string]interface{}: nil, or a map with the given keys.
NilMap == [isNil |-> TRUE, keys |-> {}, path |-> "", Host |-> ""]

WSOptsFor(node) ==
    [isNil |-> FALSE, keys |-> {"path", "headers"},
     path |-> node.Path, Host |-> node.Host]

\* The zero ClashProxy returned next to an error.
ZeroProxy ==
    [Name |-> "", Type |-> "", Server |-> "", Port |-> 0, UUID |-> "",
     AlterID |-> 0, Cipher |-> "", TLS |-> FALSE, Network |-> "",
     WSOpts |-> NilMap, SkipCert |-> FALSE]

WSOptsAlways(node) ==
    IF node.Net = "ws" THEN WSOptsFor(node)
    ELSE [isNil |-> FALSE, keys |-> {}, path |-> "", Host |-> ""]

\* main.go 225-231: the ws-opts of the entry.
WSOptsOf(node) ==
    IF node.Net = "ws" THEN WSOptsFor(node) ELSE NilMap

convertVmessToClashProxy(node) ==
    LET p == Atoi(node.Port)
    IN  IF ~p.ok
        THEN [err |-> TRUE, proxy |-> ZeroProxy]
        ELSE [err |-> FALSE,
              proxy |-> [Name     |-> node.PS,
                         Type     |-> "vmess",
                         Server   |-> node.Add,
                         Port     |-> p.val,
                         UUID     |-> node.ID,
                         AlterID  |-> node.Aid,
                         Cipher   |-> "auto",
                         TLS      |-> (node.TLS = "tls"),
                         SkipCert |-> TRUE,
                         Network  |-> node.Net,
                         WSOpts   |-> WSOptsOf(node)]]

----------------------------------------------------------------------------
(* Subscription lines and the per-line decoder (main.go 154-186).          *)
(* A line is described by what the library calls of the loop look at:      *)
(* surrounding blanks, the scheme it starts with, the length and alphabet  *)
(* of the text after the scheme, and what that text decodes to.            *)

\* var node VmessNode
ZeroNode ==
    [Add |-> "", Aid |-> 0, Host |-> "", ID |-> "", Net |-> "", Path |-> "",
     Port |-> <<>>, PS |-> "", TLS |-> ""]

Node(ps, net, port, tls) ==
    [Add |-> "1.2.3.4", Aid |-> 0, Host |-> "h.example", ID |-> "abc-123",
     Net |-> net, Path |-> "/ray", Port |-> port, PS |-> ps, TLS |-> tls]

\* A line: blank-wrapped or not, scheme, n characters of payload, whether the
\* payload is in the base64 alphabet, whether the decoded bytes unmarshal into
\* VmessNode, and the node they unmarshal to.
Link(lead, scheme, n, alphabet, json, node) ==
    [lead |-> lead, scheme |-> scheme, n |-> n, alphabet |-> alphabet,
     json |-> json, node |-> node]

VmessLink(node) == Link(FALSE, "vmess://", 8, TRUE, TRUE, node)

Links ==
    { Link(FALSE, "", 0, TRUE, FALSE, ZeroNode),                \* empty line
      Link(FALSE, "ss://", 8, TRUE, FALSE, ZeroNode),           \* other scheme
      Link(FALSE, "vmess://", 8, FALSE, FALSE, ZeroNode),       \* not base64
      Link(FALSE, "vmess://", 5, TRUE, FALSE, ZeroNode),        \* impossible length
      Link(FALSE, "vmess://", 8, TRUE, FALSE, ZeroNode),        \* not JSON
      Link(TRUE, "vmess://", 6, TRUE, TRUE,                     \* blanks, unpadded
           Node("w", "ws", <<"4", "4", "3">>, "tls")),
      VmessLink(Node("a", "ws", <<"4", "4", "3">>, "tls")),
      VmessLink(Node("a", "tcp", <<"8", "0">>, "")),            \* same name again
      VmessLink(Node("b", "", <<"+", "8", "0">>, "none")),
      VmessLink(Node("z", "tcp", <<"0">>, "tls")),
      VmessLink(Node("m", "ws", <<"-", "1">>, "")),
      VmessLink(Node("x", "tcp", <<"a", "b", "c">>, "tls")),
      VmessLink(Node("e", "ws", <<>>, "tls")),
      VmessLink(Node("s", "tcp", <<"8", "0", " ">>, "tls")) }

\* strings.TrimSpace
TrimSpace(link) == [link EXCEPT !.lead = FALSE]

\* strings.HasPrefix: a line that still has leading blanks does not match.
HasPrefix(link, prefix) == ~link.lead /\ link.scheme = prefix

\* main.go 158-163: the number of "=" appended.
Padding(n) == IF n % 4 # 0 THEN 4 - (n % 4) ELSE 0

\* base64.StdEncoding.DecodeString on n payload characters followed by pad
\* "=": the alphabet must be right, the length a multiple of 4, and at most
\* two characters of the last quantum may be padding.
StdDecodeOk(link, pad) ==
    link.alphabet /\ (link.n + pad) % 4 = 0 /\ pad <= 2

\* json.Unmarshal(vmessJSON, &node)
UnmarshalOk(link) == link.json

\* One iteration of the loop: what the line contributes.
ConvertLink(raw) ==
    LET link == TrimSpace(raw)
    IN  IF ~HasPrefix(link, "vmess://")
        THEN [kind |-> "ignored", proxy |-> ZeroProxy]
        ELSE IF ~StdDecodeOk(link, Padding(link.n))
        THEN [kind |-> "warn_base64", proxy |-> ZeroProxy]
        ELSE IF ~UnmarshalOk(link)
        THEN [kind |-> "warn_json", proxy |-> ZeroProxy]
        ELSE LET r == convertVmessToClashProxy(link.node)
             IN  IF r.err
                 THEN [kind |-> "warn_convert", proxy |-> ZeroProxy]
                 ELSE [kind |-> "proxy", proxy |-> r.proxy]

\* main.go 183-184
AppendBoth(acc, proxy) ==
    [proxies |-> Append(acc.proxies, proxy), names |-> Append(acc.names, proxy.Name)]

\* The loop of main.go 154-186 over links[i..]
RECURSIVE ConvertLinks(_, _, _)
ConvertLinks(links, i, acc) ==
    IF i > Len(links) THEN acc
    ELSE LET r == ConvertLink(links[i])
         IN  ConvertLinks(links, i + 1,
                          IF r.kind = "proxy" THEN AppendBoth(acc, r.proxy) ELSE acc)

----------------------------------------------------------------------------
(* The template and createDefaultClashConfig (main.go 237-318).            *)

\* A YAML value as yaml.Unmarshal hands it over in a map[string]interface{}.
YStr(s)  == [t |-> "str", s |-> s, items |-> <<>>]
YInt(s)  == [t |-> "int", s |-> s, items |-> <<>>]
YList(items) == [t |-> "list", s |-> "", items |-> items]
Absent      == [t |-> "absent", s |-> "", items |-> <<>>]

Group(name, typ, proxies) == [name |-> name, type |-> typ, proxies |-> proxies]

NoProviders == [n \in {} |-> 0]

Providers ==
    [n \in {"reject"} |->
        [Type |-> "http", Behavior |-> "domain", URL |-> "https://r.example/reject.txt",
         Path |-> "./ruleset/reject.yaml", Interval |-> 86400]]

Template(groups) ==
    [Port |-> 7890, SocksPort |-> 7891, AllowLan |-> FALSE, Mode |-> "rule",
     LogLevel |-> "warning", ExternalCtrl |-> "0.0.0.0:9090",
     RuleProviders |-> Providers,
     Rules |-> <<"RULE-SET,reject,REJECT", "MATCH,PROXY">>,
     ProxyGroups |-> groups]

\* var tmpl TemplateConfig
ZeroTemplate ==
    [Port |-> 0, SocksPort |-> 0, AllowLan |-> FALSE, Mode |-> "",
     LogLevel |-> "", ExternalCtrl |-> "", RuleProviders |-> NoProviders,
     Rules |-> <<>>, ProxyGroups |-> <<>>]

File(readable, parses, tmpl) ==
    [readable |-> readable, parses |-> parses, tmpl |-> tmpl]

TemplateFiles ==
    { File(FALSE, FALSE, ZeroTemplate),
      File(TRUE, FALSE, ZeroTemplate),
      File(TRUE, TRUE, ZeroTemplate),
      File(TRUE, TRUE, Template(<<
          Group(YStr("PROXY"), YStr("select"), YStr("${proxies}")),
          Group(YStr("AUTO"), YStr("url-test"), YStr("${proxies}")),
          Group(YStr("FINAL"), YStr("select"), YList(<<YStr("PROXY"), YStr("DIRECT")>>)) >>)),
      File(TRUE, TRUE, Template(<<
          Group(YStr("MIX"), YStr("select"), YList(<<YStr("DIRECT"), YStr("${proxies}")>>)),
          Group(YStr("ONLY"), YStr("select"), YList(<<YStr("${proxies}")>>)),
          Group(YStr("PROXY"), YStr("select"), YStr("${proxies}")) >>)),
      File(TRUE, TRUE, Template(<<
          Group(YStr("NUM"), YStr("select"),
                YList(<<YStr("DIRECT"), YInt("1080"), YStr("REJECT"), YList(<<>>)>>)),
          Group(YInt("7"), Absent, YStr("proxies")),
          Group(YStr("NONE"), YStr("select"), Absent),
          Group(YStr("EMPTY"), YStr("select"), YList(<<>>)) >>)) }

\* v.(string) with the comma-ok result dropped
AsString(v) == IF v.t = "str" THEN v.s ELSE ""

RECURSIVE ListStrings(_)
ListStrings(items) ==
    IF Len(items) = 0 THEN <<>>
    ELSE (IF Head(items).t = "str" THEN <<Head(items).s>> ELSE <<>>)
         \o ListStrings(Tail(items))

RECURSIVE ListStringsExpanding(_, _)
ListStringsExpanding(items, names) ==
    IF Len(items) = 0 THEN <<>>
    ELSE (IF Head(items).t # "str" THEN <<>>
          ELSE IF Head(items).s = "${proxies}" THEN names
          ELSE <<Head(items).s>>)
         \o ListStringsExpanding(Tail(items), names)

RECURSIVE Deduplicated(_)
Deduplicated(names) ==
    IF Len(names) = 0 THEN <<>>
    ELSE LET front == Deduplicated(SubSeq(names, 1, Len(names) - 1))
             last  == names[Len(names)]
         IN  IF \E i \in 1..Len(front) : front[i] = last THEN front
             ELSE Append(front, last)

GroupProxiesDeduplicated(g, names) ==
    IF g.proxies.t = "str" /\ g.proxies.s = "${proxies}" THEN Deduplicated(names)
    ELSE IF g.proxies.t = "list" THEN ListStrings(g.proxies.items)
    ELSE <<>>

GroupProxiesExpandingLists(g, names) ==
    IF g.proxies.t = "str" /\ g.proxies.s = "${proxies}" THEN names
    ELSE IF g.proxies.t = "list" THEN ListStringsExpanding(g.proxies.items, names)
    ELSE <<>>

\* main.go 287-297: the members of one output group.
GroupProxies(g, names) ==
    IF g.proxies.t = "str" /\ g.proxies.s = "${proxies}" THEN names
    ELSE IF g.proxies.t = "list" THEN ListStrings(g.proxies.items)
    ELSE <<>>

\* main.go 282-304
BuildGroups(groups, names) ==
    [i \in 1..Len(groups) |->
        [Name    |-> AsString(groups[i].name),
         Type    |-> AsString(groups[i].type),
         Proxies |-> GroupProxies(groups[i], names)]]

FallbackConfigNamesFirst(proxies, names) ==
    [Port |-> 7890, SocksPort |-> 7891, AllowLan |-> TRUE, Mode |-> "Rule",
     LogLevel |-> "info", ExternalCtrl |-> "127.0.0.1:9090",
     Proxies |-> proxies,
     ProxyGroups |-> << [Name |-> "PROXY", Type |-> "select",
                         Proxies |-> names \o <<"DIRECT", "REJECT">>] >>,
     RulesProviders |-> NoProviders,
     Rules |-> <<"MATCH,DIRECT">>]

\* main.go 243-261: the hardcoded defaults.
FallbackConfig(proxies, names) ==
    [Port |-> 7890, SocksPort |-> 7891, AllowLan |-> TRUE, Mode |-> "Rule",
     LogLevel |-> "info", ExternalCtrl |-> "127.0.0.1:9090",
     Proxies |-> proxies,
     ProxyGroups |-> << [Name |-> "PROXY", Type |-> "select",
                         Proxies |-> <<"DIRECT", "REJECT">> \o names] >>,
     RulesProviders |-> NoProviders,
     Rules |-> <<"MATCH,DIRECT">>]

\* main.go 306-317
MergedConfig(tmpl, proxies, names) ==
    [Port |-> tmpl.Port, SocksPort |-> tmpl.SocksPort, AllowLan |-> tmpl.AllowLan,
     Mode |-> tmpl.Mode, LogLevel |-> tmpl.LogLevel,
     ExternalCtrl |-> tmpl.ExternalCtrl,
     Proxies |-> proxies,
     ProxyGroups |-> BuildGroups(tmpl.ProxyGroups, names),
     RulesProviders |-> tmpl.RuleProviders,
     Rules |-> tmpl.Rules]

\* What createDefaultClashConfig does with the file: "fallback" (ReadFile
\* failed), "fatal" (yaml.Unmarshal failed: log.Fatalf ends the process) or
\* "merge".
TemplatePath(file) ==
    IF ~file.readable THEN "fallback"
    ELSE IF ~file.parses THEN "fatal"
    ELSE "merge"

createDefaultClashConfig(file, proxies, names) ==
    IF TemplatePath(file) = "fallback" THEN FallbackConfig(proxies, names)
    ELSE MergedConfig(file.tmpl, proxies, names)

----------------------------------------------------------------------------
(* Serialisation: yaml.Marshal(clashConfig) (main.go 197).                 *)

\* The keys of one entry of "proxies": network and ws-opts carry omitempty
\* (main.go 44-45), so an empty network and a nil or empty map are left out.
YamlProxy(p) ==
    [keys  |-> {"name", "type", "server", "port", "uuid", "alterId", "cipher",
                "tls", "skip-cert-verify"}
               \cup (IF p.Network # "" THEN {"network"} ELSE {})
               \cup (IF p.WSOpts.keys # {} THEN {"ws-opts"} ELSE {}),
     entry |-> p]

Marshal(config) ==
    [config EXCEPT !.Proxies = [i \in 1..Len(config.Proxies) |->
                                    YamlProxy(config.Proxies[i])]]

----------------------------------------------------------------------------
(* processConvert (main.go 127-203) and processConfig (main.go 105-117).   *)

ErrFetch   == "failed to fetch subscription URL"
ErrRead    == "failed to read subscription response body"
ErrDecode  == "failed to decode base64 subscription content"
ErrEmpty   == "no valid vmess nodes found in the subscription"

StageOrder == <<"fetch", "decode", "lines", "empty", "merge", "serialize">>

\* The decoded bodies explored: strings.Split never returns an empty slice.
Subscriptions == UNION { [1..n -> Links] : n \in 1..MaxLinks }

NoResult == [data |-> <<>>, err |-> ""]

Failure(msg) == [data |-> <<>>, err |-> msg]

ProceedAlways(err, next) == next

\* if err != nil { return nil, fmt.Errorf(...) }: the request goes back to
\* the handler, otherwise on to the next stage.
Proceed(err, next) == IF err # "" THEN "respond" ELSE next

EmptyResultNever(proxies) == FALSE

\* main.go 188
EmptyResult(proxies) == Len(proxies) = 0

\* main.go 105-117: the calls the handler makes for a processConvert result.
\* There is no return after c.JSON, so the header and data calls follow it.
HandlerCalls(res) ==
    (IF res.err # "" THEN <<"JSON(500)">> ELSE <<>>)
    \o <<"Header(Content-Type)", "Header(Content-Disposition)", "Data(200)">>

Init ==
    /\ pc = "idle"
    /\ tmplFile \in TemplateFiles
    /\ nodeLinks = <<>>
    /\ clashProxies = <<>>
    /\ proxyNames = <<>>
    /\ clashConfig = <<>>
    /\ result = NoResult
    /\ calls = <<>>
    /\ stages = <<>>

\* gin dispatches GET /config to processConfig; everything is request-local.
Request ==
    /\ pc \in {"idle", "done"}
    /\ pc' = "fetch"
    /\ nodeLinks' = <<>>
    /\ clashProxies' = <<>>
    /\ proxyNames' = <<>>
    /\ clashConfig' = <<>>
    /\ result' = NoResult
    /\ calls' = <<>>
    /\ stages' = <<>>
    /\ UNCHANGED tmplFile

\* main.go 130-139: http.Get and io.ReadAll
Fetch ==
    /\ pc = "fetch"
    /\ \E err \in {"", ErrFetch, ErrRead} :
          /\ result' = IF err # "" THEN Failure(err) ELSE result
          /\ pc' = Proceed(err, "decode")
    /\ stages' = Append(stages, "fetch")
    /\ UNCHANGED <<tmplFile, nodeLinks, clashProxies, proxyNames, clashConfig, calls>>

\* main.go 142-148: outer base64 decode and split into lines
DecodeBody ==
    /\ pc = "decode"
    /\ \E err \in {"", ErrDecode} :
          /\ result' = IF err # "" THEN Failure(err) ELSE result
          /\ pc' = Proceed(err, "lines")
          /\ IF err # "" THEN nodeLinks' = nodeLinks
             ELSE nodeLinks' \in Subscriptions
    /\ stages' = Append(stages, "decode")
    /\ UNCHANGED <<tmplFile, clashProxies, proxyNames, clashConfig, calls>>

\* main.go 150-186: the loop over the lines
ConvertNodes ==
    /\ pc = "lines"
    /\ LET acc == ConvertLinks(nodeLinks, 1, [proxies |-> <<>>, names |-> <<>>])
       IN  /\ clashProxies' = acc.proxies
           /\ proxyNames' = acc.names
    /\ pc' = "empty"
    /\ stages' = Append(stages, "lines")
    /\ UNCHANGED <<tmplFile, nodeLinks, clashConfig, result, calls>>

\* main.go 188-191
CheckEmpty ==
    /\ pc = "empty"
    /\ LET err == IF EmptyResult(clashProxies) THEN ErrEmpty ELSE ""
       IN  /\ result' = IF err # "" THEN Failure(err) ELSE result
           /\ pc' = Proceed(err, "merge")
    /\ stages' = Append(stages, "empty")
    /\ UNCHANGED <<tmplFile, nodeLinks, clashProxies, proxyNames, clashConfig, calls>>

\* main.go 194: createDefaultClashConfig; log.Fatalf (main.go 279) ends the
\* process, and with it every request.
Merge ==
    /\ pc = "merge"
    /\ IF TemplatePath(tmplFile) = "fatal"
       THEN /\ pc' = "exited"
            /\ clashConfig' = clashConfig
       ELSE /\ pc' = "serialize"
            /\ clashConfig' =
                 <<createDefaultClashConfig(tmplFile, clashProxies, proxyNames)>>
    /\ stages' = Append(stages, "merge")
    /\ UNCHANGED <<tmplFile, nodeLinks, clashProxies, proxyNames, result, calls>>

\* main.go 197-202: yaml.Marshal of a ClashConfig holds only strings, ints,
\* bools, slices and maps of them, which it always encodes.
Serialize ==
    /\ pc = "serialize"
    /\ result' = [data |-> <<Marshal(clashConfig[1])>>, err |-> ""]
    /\ pc' = "respond"
    /\ stages' = Append(stages, "serialize")
    /\ UNCHANGED <<tmplFile, nodeLinks, clashProxies, proxyNames, clashConfig, calls>>

\* main.go 106-116: what processConfig does with (data, err)
Respond ==
    /\ pc = "respond"
    /\ calls' = HandlerCalls(result)
    /\ pc' = "done"
    /\ UNCHANGED <<tmplFile, nodeLinks, clashProxies, proxyNames, clashConfig,
                   result, stages>>

Next ==
    \/ Request
    \/ Fetch
    \/ DecodeBody
    \/ ConvertNodes
    \/ CheckEmpty
    \/ Merge
    \/ Serialize
    \/ Respond

Spec == Init /\ [][Next]_vars

----------------------------------------------------------------------------
(* Vocabulary of the properties, stated without the decoder above.         *)

Ran(stage) == \E i \in 1..Len(stages) : stages[i] = stage

\* Text that is an optional sign followed by at least one decimal digit.
NumericText(s) ==
    \E k \in 0..1 :
       /\ Len(s) > k
       /\ k = 1 => s[1] \in {"+", "-"}
       /\ \A i \in (k + 1)..Len(s) : s[i] \in Digits

\* A line that carries the prefix once trimmed, decodes as base64 (with the
\* "=" it lacks) and as JSON, and has a numeric port.
ValidLine(l) ==
    /\ l.scheme = "vmess://"
    /\ l.alphabet /\ l.n % 4 # 1
    /\ l.json
    /\ NumericText(l.node.Port)

ValidLines == SelectSeq(nodeLinks, ValidLine)

Present(opts) == ~opts.isNil

Document == result.data[1]

Succeeded == result.err = "" /\ Len(result.data) = 1

IsPlaceholder(v) == v.t = "str" /\ v.s = "${proxies}"

----------------------------------------------------------------------------
(* C1: a request whose processConvert returned an error gets the 500 JSON   *)
(* error and nothing else: no YAML headers and no data body are written    *)
(* after it.                                                               *)
C1_ErrorResponseOnly ==
    (pc = "done" /\ result.err # "") => calls = <<"JSON(500)">>

(* C2: a readable template that does not parse makes the conversion return *)
(* an error to processConfig, which answers 500; no document is produced   *)
(* and the server goes on serving.                                         *)
C2_MalformedTemplateIs500 ==
    (Ran("merge") /\ tmplFile.readable /\ ~tmplFile.parses)
        => /\ pc \in {"respond", "done"}
           /\ result.err # ""
           /\ result.data = <<>>
           /\ clashConfig = <<>>
           /\ pc = "done" => calls[1] = "JSON(500)"

(* C3: every proxy entry of the output document has a port greater than    *)
(* zero.                                                                   *)
C3_PortsPositive ==
    Succeeded => \A i \in 1..Len(Document.Proxies) : Document.Proxies[i].entry.Port > 0

(* C4: when no proxy entry survived the lines, the conversion fails with   *)
(* the empty-result error and returns no document; a returned document     *)
(* holds at least one proxy entry.                                         *)
C4_EmptyResultFails ==
    /\ (Ran("empty") /\ Len(clashProxies) = 0)
          => result = Failure(ErrEmpty) /\ clashConfig = <<>>
    /\ Len(result.data) = 1 => Len(Document.Proxies) >= 1

C4_Witness ==
    /\ pc = "done"
    /\ Len(nodeLinks) = 2
    /\ nodeLinks[1].scheme = "vmess://" /\ ~nodeLinks[1].json
    /\ nodeLinks[2].scheme = "vmess://" /\ nodeLinks[2].json
    /\ result = Failure(ErrEmpty)

(* C5, as stated: the collected entries are the mapped valid lines in line *)
(* order, and the request succeeds whenever at least one line is valid.    *)
C5_ValidLineMeansSuccess ==
    Ran("lines") =>
        /\ Len(clashProxies) = Len(ValidLines)
        /\ Len(ValidLines) > 0 =>
              /\ pc # "exited"
              /\ pc = "done" => Succeeded

(* C5, amended: the collected entries and names are the mapped valid lines *)
(* in line order; no other line adds an entry or an error; with at least   *)
(* one valid line the request never fails as empty, and it succeeds unless *)
(* the template is readable but does not parse.                            *)
C5_EntriesAreValidLines ==
    Ran("lines") =>
        /\ Len(clashProxies) = Len(ValidLines)
        /\ Len(proxyNames) = Len(ValidLines)
        /\ \A i \in 1..Len(ValidLines) :
              /\ clashProxies[i].Name = ValidLines[i].node.PS
              /\ clashProxies[i].Server = ValidLines[i].node.Add
              /\ clashProxies[i].Network = ValidLines[i].node.Net
              /\ clashProxies[i].Port = Atoi(ValidLines[i].node.Port).val
              /\ proxyNames[i] = ValidLines[i].node.PS
        /\ ~Ran("empty") => result = NoResult
        /\ Len(ValidLines) > 0 =>
              /\ result.err = ""
              /\ (pc = "done" /\ TemplatePath(tmplFile) # "fatal") => Succeeded

C5_Witness ==
    /\ pc = "done" /\ Succeeded
    /\ Len(nodeLinks) = 2
    /\ ~ValidLine(nodeLinks[1])
    /\ nodeLinks[1].scheme = "vmess://" /\ nodeLinks[1].json
    /\ ValidLine(nodeLinks[2])
    /\ Len(Document.Proxies) = 1

(* C6: with a parseable template, every group whose proxies field is the   *)
(* placeholder gets exactly the generated names, in subscription order,    *)
(* duplicates kept, matching the output proxies list one for one.          *)
C6_PlaceholderExpands ==
    (Len(clashConfig) = 1 /\ tmplFile.readable /\ tmplFile.parses) =>
        LET groups == tmplFile.tmpl.ProxyGroups
            out    == clashConfig[1]
        IN  /\ Len(out.ProxyGroups) = Len(groups)
            /\ \A g \in 1..Len(groups) :
                  IsPlaceholder(groups[g].proxies) =>
                     /\ Len(out.ProxyGroups[g].Proxies) = Len(ValidLines)
                     /\ Len(out.ProxyGroups[g].Proxies) = Len(out.Proxies)
                     /\ \A i \in 1..Len(out.Proxies) :
                           /\ out.ProxyGroups[g].Proxies[i] = out.Proxies[i].Name
                           /\ out.ProxyGroups[g].Proxies[i] = ValidLines[i].node.PS

C6_Witness ==
    /\ pc = "done" /\ Succeeded
    /\ tmplFile.readable /\ tmplFile.parses
    /\ \E g \in 1..Len(tmplFile.tmpl.ProxyGroups) :
          /\ IsPlaceholder(tmplFile.tmpl.ProxyGroups[g].proxies)
          /\ Document.ProxyGroups[g].Proxies = <<"a", "a">>

(* C7: with an unreadable template the document has the one group PROXY of *)
(* type select with members DIRECT, REJECT and then the generated names,   *)
(* the one rule MATCH,DIRECT, and the generated proxies unchanged.         *)
C7_FallbackDocument ==
    (Len(clashConfig) = 1 /\ ~tmplFile.readable) =>
        LET out == clashConfig[1]
        IN  /\ Len(out.ProxyGroups) = 1
            /\ out.ProxyGroups[1].Name = "PROXY"
            /\ out.ProxyGroups[1].Type = "select"
            /\ Len(out.ProxyGroups[1].Proxies) = 2 + Len(proxyNames)
            /\ out.ProxyGroups[1].Proxies[1] = "DIRECT"
            /\ out.ProxyGroups[1].Proxies[2] = "REJECT"
            /\ \A i \in 1..Len(proxyNames) :
                  out.ProxyGroups[1].Proxies[2 + i] = proxyNames[i]
            /\ out.Rules = <<"MATCH,DIRECT">>
            /\ out.Proxies = clashProxies

C7_Witness ==
    /\ pc = "done" /\ Succeeded
    /\ ~tmplFile.readable
    /\ Document.ProxyGroups[1].Proxies = <<"DIRECT", "REJECT", "w", "b">>

(* C8: an accepted node's entry has ws-opts if and only if its network is  *)
(* "ws"; then they hold the node's path and its host under Host; for any   *)
(* other network they are absent, not an empty mapping.                    *)
C8_WSOptsOnlyForWs ==
    Ran("lines") =>
        /\ Len(clashProxies) = Len(ValidLines)
        /\ \A i \in 1..Len(clashProxies) :
           LET node == ValidLines[i].node
               opts == clashProxies[i].WSOpts
           IN  /\ Present(opts) <=> node.Net = "ws"
               /\ node.Net = "ws" =>
                     /\ opts.keys = {"path", "headers"}
                     /\ opts.path = node.Path
                     /\ opts.Host = node.Host
               /\ node.Net # "ws" => opts = NilMap

C8_Witness ==
    /\ Ran("lines")
    /\ Len(clashProxies) = 2
    /\ Present(clashProxies[1].WSOpts)
    /\ clashProxies[2].Network = "tcp"
    /\ ~Present(clashProxies[2].WSOpts)

(* C9, as stated: a group whose proxies field is a list is copied member   *)
(* for member, in template order, with no expansion.                       *)
C9_ListCopiedMemberForMember ==
    (Len(clashConfig) = 1 /\ tmplFile.readable /\ tmplFile.parses) =>
        \A g \in 1..Len(tmplFile.tmpl.ProxyGroups) :
           LET v   == tmplFile.tmpl.ProxyGroups[g].proxies
               out == clashConfig[1].ProxyGroups[g].Proxies
           IN  v.t = "list" =>
                  /\ Len(out) = Len(v.items)
                  /\ \A i \in 1..Len(out) : out[i] = v.items[i].s

(* C9, amended: a group whose proxies field is a list gets the string      *)
(* members of that list, in template order, with no expansion (a           *)
(* placeholder inside the list stays as that literal string); members      *)
(* that are not strings are left out.                                      *)
C9_ListStringsCopied ==
    (Len(clashConfig) = 1 /\ tmplFile.readable /\ tmplFile.parses) =>
        \A g \in 1..Len(tmplFile.tmpl.ProxyGroups) :
           LET v    == tmplFile.tmpl.ProxyGroups[g].proxies
               strs == SelectSeq(v.items, LAMBDA m : m.t = "str")
               out  == clashConfig[1].ProxyGroups[g].Proxies
           IN  v.t = "list" =>
                  /\ Len(out) = Len(strs)
                  /\ \A i \in 1..Len(out) : out[i] = strs[i].s

C9_Witness ==
    /\ pc = "done" /\ Succeeded
    /\ Len(proxyNames) = 2
    /\ tmplFile.readable /\ tmplFile.parses
    /\ \E g \in 1..Len(tmplFile.tmpl.ProxyGroups) :
          /\ tmplFile.tmpl.ProxyGroups[g].proxies.t = "list"
          /\ Document.ProxyGroups[g].Proxies = <<"DIRECT", "${proxies}">>

(* C10: the stages of a request run in the order fetch, decode, lines,     *)
(* empty check, merge, serialize, each at most once; the stage that fails  *)
(* is the last to run; the template is read only with at least one proxy   *)
(* entry, so a subscription without usable nodes fails as empty with the   *)
(* template unread, whatever the template is.                              *)
C10_StagesInOrder ==
    /\ Len(stages) <= Len(StageOrder)
    /\ \A i \in 1..Len(stages) : stages[i] = StageOrder[i]
    /\ result.err \in {ErrFetch, ErrRead} => stages = SubSeq(StageOrder, 1, 1)
    /\ result.err = ErrDecode => stages = SubSeq(StageOrder, 1, 2)
    /\ result.err = ErrEmpty => stages = SubSeq(StageOrder, 1, 4)
    /\ pc = "exited" => stages = SubSeq(StageOrder, 1, 5)
    /\ Ran("merge") => Len(clashProxies) > 0
    /\ (Ran("empty") /\ Len(clashProxies) = 0) => result.err = ErrEmpty

C10_Witness ==
    /\ pc = "done"
    /\ result.err = ErrEmpty
    /\ tmplFile.readable /\ ~tmplFile.parses
    /\ stages = <<"fetch", "decode", "lines", "empty">>

====
